---------------------------- MODULE Spec2Model ----------------------------
(***************************************************************************)
(* A model of bevy_tangled's lib.rs: the wire framing codec (pack/unpack), *)
(* the dispatch facade (Client) and the capability reference handed to     *)
(* receive callbacks (ClientTypeRef).  The backend drivers (ip.rs,         *)
(* steam.rs) are not part of lib.rs; their operations are modelled after   *)
(* the written specification and are named Ip_... and Steam_... below.     *)
(***************************************************************************)
EXTENDS Integers, Sequences, FiniteSets, TLC

VARIABLES
    feat,       \* the cargo features of the build: [steam, tangled, compress]
    codec,      \* one pack/unpack exchange: [pc, v, req, frame, tampered, out]
    client,     \* the Client struct: [ip_client, steam_client]
    panicked,   \* the thread that owns the Client has panicked
    last,       \* the last facade call: what was called, who served it, the result
    peers,      \* a session: each peer's Client
    wire,       \* a session: frames in flight, per ordered pair of peers
    log         \* a session: what was broadcast and what the callbacks saw

vars == <<feat, codec, client, panicked, last, peers, wire, log>>

(***************************************************************************)
(* Bounds of the model.                                                    *)
(***************************************************************************)
MaxLen == 2          \* payloads are byte vectors of at most MaxLen bytes
MaxByte == 2         \* payload bytes (and tampered bytes) range over 0..MaxByte
MaxTamper == 1       \* bytes of a frame the network may corrupt
MaxInbox == 2        \* frames a backend buffers between two drains
MaxBroadcasts == 2   \* broadcasts issued in one session

RECURSIVE SeqsUpTo(_, _)
SeqsUpTo(S, n) ==
    IF n = 0 THEN {<<>>}
    ELSE LET shorter == SeqsUpTo(S, n - 1)
         IN  shorter \cup {Append(s, x) : s \in {t \in shorter : Len(t) = n - 1}, x \in S}

Payloads == SeqsUpTo(0..MaxByte, MaxLen)

Features == [steam : BOOLEAN, tangled : BOOLEAN, compress : BOOLEAN]

(***************************************************************************)
(* bitcode: encode / decode of a Vec<u8> shorter than 255 bytes: one       *)
(* length byte, then the bytes.  decode rejects a buffer whose length      *)
(* byte does not match the bytes that follow.                              *)
(***************************************************************************)
encode(v) == <<Len(v)>> \o v

decode(b) ==
    IF Len(b) = 0 THEN [ok |-> FALSE, v |-> <<>>]
    ELSE IF b[1] < 255 /\ b[1] = Len(b) - 1
         THEN [ok |-> TRUE, v |-> SubSeq(b, 2, Len(b))]
         ELSE [ok |-> FALSE, v |-> <<>>]

(***************************************************************************)
(* lz4_flex: the block format with the uncompressed size prepended as a    *)
(* little-endian u32.  An input shorter than 13 bytes is emitted as one    *)
(* sequence of literals; every input the model compresses is that short.   *)
(***************************************************************************)
LE32(n) == <<n % 256, (n \div 256) % 256, (n \div 65536) % 256, (n \div 16777216) % 256>>

FromLE32(b) == b[1] + 256 * b[2] + 65536 * b[3] + 16777216 * b[4]

RECURSIVE WriteInteger(_)
WriteInteger(n) == IF n >= 255 THEN <<255>> \o WriteInteger(n - 255) ELSE <<n>>

compress(d) ==
    IF Len(d) < 15 THEN <<Len(d) * 16>> \o d
    ELSE <<240>> \o WriteInteger(Len(d) - 15) \o d

compress_prepend_size(d) == LE32(Len(d)) \o compress(d)

RECURSIVE ReadInteger(_, _)
ReadInteger(in, i) ==
    IF i > Len(in) THEN [ok |-> FALSE, n |-> 0, pos |-> i]
    ELSE IF in[i] = 255
         THEN LET r == ReadInteger(in, i + 1)
              IN  [ok |-> r.ok, n |-> 255 + r.n, pos |-> r.pos]
         ELSE [ok |-> TRUE, n |-> in[i], pos |-> i + 1]

RECURSIVE CopyMatch(_, _, _)
CopyMatch(out, offset, n) ==
    IF n = 0 THEN out
    ELSE CopyMatch(Append(out, out[Len(out) - offset + 1]), offset, n - 1)

LzErr == [ok |-> FALSE, out |-> <<>>]

RECURSIVE Lz4Sequences(_, _, _, _)
Lz4Sequences(in, i, out, cap) ==
    LET token == in[i]
        lr    == IF token \div 16 = 15 THEN ReadInteger(in, i + 1)
                 ELSE [ok |-> TRUE, n |-> 0, pos |-> i + 1]
        litn  == (token \div 16) + lr.n
        j     == lr.pos
    IN  IF ~lr.ok \/ j + litn - 1 > Len(in) \/ Len(out) + litn > cap THEN LzErr
        ELSE LET out1 == out \o SubSeq(in, j, j + litn - 1)
                 k    == j + litn
             IN  IF k > Len(in) THEN [ok |-> TRUE, out |-> out1]
                 ELSE IF k + 1 > Len(in) THEN LzErr
                 ELSE LET offset == in[k] + 256 * in[k + 1]
                          mr     == IF token % 16 = 15 THEN ReadInteger(in, k + 2)
                                    ELSE [ok |-> TRUE, n |-> 0, pos |-> k + 2]
                          mlen   == 4 + (token % 16) + mr.n
                      IN  IF \/ ~mr.ok
                             \/ offset = 0
                             \/ offset > Len(out1)
                             \/ Len(out1) + mlen > cap
                             \/ mr.pos > Len(in)
                          THEN LzErr
                          ELSE Lz4Sequences(in, mr.pos, CopyMatch(out1, offset, mlen), cap)

decompress_size_prepended(b) ==
    IF Len(b) < 4 THEN LzErr
    ELSE LET size  == FromLE32(b)
             block == SubSeq(b, 5, Len(b))
         IN  IF Len(block) = 0 THEN LzErr
             ELSE LET r == Lz4Sequences(block, 1, <<>>, size)
                  IN  IF r.ok /\ Len(r.out) = size THEN r ELSE LzErr

(***************************************************************************)
(* pack and unpack.  unpack returns a T, not a Result: each unwrap() is    *)
(* a panic of the calling thread.                                          *)
(***************************************************************************)
Value(v) == [kind |-> "Value", v |-> v]
Panic == [kind |-> "Panic", v |-> <<>>]

pack_marker_dropped(data, compression) ==
    LET bytes == encode(data)
    IN  IF feat.compress
        THEN IF compression = "Compressed"
             THEN Append(compress_prepend_size(bytes), 0)
             ELSE Append(bytes, 0)
        ELSE bytes

pack(data, compression) ==
    LET bytes == encode(data)
    IN  IF feat.compress
        THEN IF compression = "Compressed"
             THEN Append(compress_prepend_size(bytes), 1)
             ELSE Append(bytes, 0)
        ELSE bytes

decode_unwrap(b) ==
    LET r == decode(b) IN IF r.ok THEN Value(r.v) ELSE Panic

unpack(data) ==
    IF feat.compress
    THEN IF Len(data) = 0 THEN Panic
         ELSE LET body == SubSeq(data, 1, Len(data) - 1)
              IN  IF data[Len(data)] = 1
                  THEN LET d == decompress_size_prepended(body)
                       IN  IF d.ok THEN decode_unwrap(d.out) ELSE Panic
                  ELSE decode_unwrap(body)
    ELSE decode_unwrap(data)


(***************************************************************************)
(* Results.  NetError (lib.rs) tags a backend's native error with the      *)
(* backend; UResult carries a bare SteamError.                             *)
(***************************************************************************)
Ok == [ok |-> TRUE, type |-> "", tag |-> "", code |-> 0]

NetError_from_tangled(code) ==
    [ok |-> FALSE, type |-> "NetError", tag |-> "Tangled", code |-> code]

NetError_from_steam(code) ==
    [ok |-> FALSE, type |-> "NetError", tag |-> "Steam", code |-> code]

NetError(tag, code) ==
    IF tag = "Tangled" THEN NetError_from_tangled(code) ELSE NetError_from_steam(code)

SteamError(code) ==
    [ok |-> FALSE, type |-> "SteamError", tag |-> "Steam", code |-> code]

Compression == {"Compressed", "Uncompressed"}
Reliability == {"Reliable", "Unreliable"}
PeerIds == 1..2           \* the host and one joiner, as one Client sees them
Outcomes == 0..1          \* what a backend call meets: 0 no fault, else a native error code

(***************************************************************************)
(* The backend drivers.  A backend record is [some, my_id, host_id, peers, *)
(* inbox]; for the relay backend `some` says whether it is in a lobby.     *)
(***************************************************************************)
NoBackend == [some |-> FALSE, my_id |-> 0, host_id |-> 0, peers |-> {}, inbox |-> <<>>]

IpClient_host == [some |-> TRUE, my_id |-> 1, host_id |-> 1, peers |-> {}, inbox |-> <<>>]

IpClient_join(id) == [some |-> TRUE, my_id |-> id, host_id |-> 1, peers |-> {}, inbox |-> <<>>]

SteamClient_new == [some |-> FALSE, my_id |-> 2, host_id |-> 2, peers |-> {}, inbox |-> <<>>]

Backend_my_id(b) == b.my_id
Backend_host_id(b) == IF b.some THEN b.host_id ELSE b.my_id
Backend_is_host(b) == Backend_my_id(b) = Backend_host_id(b)
Backend_peer_len(b) == IF b.some THEN Cardinality(b.peers) ELSE 0
Backend_is_connected(b) == b.some /\ b.peers # {}
Ip_mode(b) == "Ip"
Steam_mode(b) == IF b.some THEN "Steam" ELSE "None"
Ip_get_name(b) == "None"
Steam_get_name(b) == "Some"
Steam_info(b) == IF b.some THEN b.peers ELSE {}

\* send_raw: a fault of the channel or an unknown destination is a failure,
\* tagged by the conversion the backend's own error type has in lib.rs.
Backend_send_raw(b, tag, dest, bytes, rel, o) ==
    IF ~b.some THEN [ret |-> Ok, out |-> {}]
    ELSE IF o # 0 THEN [ret |-> NetError(tag, o), out |-> {}]
    ELSE IF dest \notin b.peers THEN [ret |-> NetError(tag, 2), out |-> {}]
    ELSE [ret |-> Ok, out |-> {[dst |-> dest, data |-> bytes, rel |-> rel]}]

\* broadcast_raw: every known remote peer, never the sender itself.
Backend_broadcast_raw(b, tag, bytes, rel, o) ==
    IF ~b.some THEN [ret |-> Ok, out |-> {}]
    ELSE IF o # 0 THEN [ret |-> NetError(tag, o), out |-> {}]
    ELSE [ret |-> Ok,
          out |-> {[dst |-> d, data |-> bytes, rel |-> rel] : d \in b.peers \ {b.my_id}}]

Ip_send_raw(b, dest, bytes, rel, o) ==
    Backend_send_raw(b, "Tangled", dest, bytes, rel, o)
Ip_send(b, dest, data, rel, comp, o) == Ip_send_raw(b, dest, pack(data, comp), rel, o)
Ip_broadcast_raw(b, bytes, rel, o) ==
    Backend_broadcast_raw(b, "Tangled", bytes, rel, o)
Ip_broadcast(b, data, rel, comp, o) == Ip_broadcast_raw(b, pack(data, comp), rel, o)

Steam_send_raw(b, dest, bytes, rel, o) ==
    Backend_send_raw(b, "Steam", dest, bytes, rel, o)
Steam_send(b, dest, data, rel, comp, o) == Steam_send_raw(b, dest, pack(data, comp), rel, o)
Steam_broadcast_raw(b, bytes, rel, o) ==
    Backend_broadcast_raw(b, "Steam", bytes, rel, o)
Steam_broadcast(b, data, rel, comp, o) == Steam_broadcast_raw(b, pack(data, comp), rel, o)

\* The typed drain: every buffered item in order, unpack, then the callback
\* with the capability reference; the item is taken off the buffer first.
\* A panic of unpack unwinds through the drain.
RECURSIVE Drain(_, _, _)
Deliver(inbox, cb, ref, r) ==
    IF r.kind = "Panic"
    THEN [rest |-> Tail(inbox), cb |-> cb, panic |-> TRUE]
    ELSE Drain(Tail(inbox),
               Append(cb, [ref |-> ref, src |-> Head(inbox).src, data |-> r.v]), ref)

Drain(inbox, cb, ref) ==
    IF inbox = <<>> THEN [rest |-> <<>>, cb |-> cb, panic |-> FALSE]
    ELSE Deliver(inbox, cb, ref, unpack(Head(inbox).data))

Drained(b, d) == [b |-> [b EXCEPT !.inbox = d.rest], cb |-> d.cb, panic |-> d.panic]

Backend_recv(b, ref) == Drained(b, Drain(b.inbox, <<>>, ref))

Backend_recv_raw(b, ref) ==
    [b |-> [b EXCEPT !.inbox = <<>>],
     cb |-> [i \in 1..Len(b.inbox) |->
                [ref |-> ref, src |-> b.inbox[i].src, data |-> b.inbox[i].data]],
     panic |-> FALSE]

\* update: the one place where the backend takes note of peers coming and going.
Events == {[kind |-> k, peer |-> p] : k \in {"none", "join", "leave"}, p \in PeerIds}

Backend_poll(b, ev) ==
    IF ~b.some \/ ev.peer = b.my_id THEN b
    ELSE IF ev.kind = "join" THEN [b EXCEPT !.peers = @ \cup {ev.peer}]
    ELSE IF ev.kind = "leave" THEN [b EXCEPT !.peers = @ \ {ev.peer}]
    ELSE b

Ip_update(b, ev) == Backend_poll(b, ev)

Steam_update(b, ev, o) ==
    IF b.some /\ o # 0 THEN [b |-> b, ret |-> SteamError(o)]
    ELSE [b |-> Backend_poll(b, ev), ret |-> Ok]

(***************************************************************************)
(* The facade: impl Client and impl ClientTrait for Client.  Each method   *)
(* is given with the backend it reaches (by), what that backend reported   *)
(* (reported) and what the method returns (ret, or val for a query).       *)
(***************************************************************************)
Client_new ==
    [ip_client |-> NoBackend,
     steam_client |-> IF feat.steam THEN SteamClient_new ELSE NoBackend]

\* #[cfg(feature = "tangled")] if let Some(ip) = &self.ip_client
ip_bound(c) == feat.tangled /\ c.ip_client.some

Served(by, r) == [by |-> by, reported |-> r.ret, ret |-> r.ret, out |-> r.out]

NotServed == [by |-> "None", reported |-> Ok, ret |-> Ok, out |-> {}]

Client_send(c, dest, data, rel, comp, o) ==
    IF ip_bound(c) THEN Served("Ip", Ip_send(c.ip_client, dest, data, rel, comp, o))
    ELSE IF feat.steam
         THEN Served("Steam", Steam_send(c.steam_client, dest, data, rel, comp, o))
         ELSE NotServed

Client_broadcast_ip_forgotten(c, data, rel, comp, o) ==
    IF feat.steam
    THEN Served("Steam", Steam_broadcast(c.steam_client, data, rel, comp, o))
    ELSE NotServed

Client_broadcast(c, data, rel, comp, o) ==
    IF ip_bound(c) THEN Served("Ip", Ip_broadcast(c.ip_client, data, rel, comp, o))
    ELSE IF feat.steam
         THEN Served("Steam", Steam_broadcast(c.steam_client, data, rel, comp, o))
         ELSE NotServed

Client_send_raw(c, dest, bytes, rel, o) ==
    IF ip_bound(c) THEN Served("Ip", Ip_send_raw(c.ip_client, dest, bytes, rel, o))
    ELSE IF feat.steam
         THEN Served("Steam", Steam_send_raw(c.steam_client, dest, bytes, rel, o))
         ELSE NotServed

Client_broadcast_raw_swallowed(c, bytes, rel, o) ==
    IF ip_bound(c)
    THEN [Served("Ip", Ip_broadcast_raw(c.ip_client, bytes, rel, o)) EXCEPT !.ret = Ok]
    ELSE IF feat.steam
         THEN [Served("Steam", Steam_broadcast_raw(c.steam_client, bytes, rel, o))
                  EXCEPT !.ret = Ok]
         ELSE NotServed

Client_broadcast_raw(c, bytes, rel, o) ==
    IF ip_bound(c) THEN Served("Ip", Ip_broadcast_raw(c.ip_client, bytes, rel, o))
    ELSE IF feat.steam
         THEN Served("Steam", Steam_broadcast_raw(c.steam_client, bytes, rel, o))
         ELSE NotServed

Client_my_id(c) ==
    IF ip_bound(c) THEN [by |-> "Ip", val |-> Backend_my_id(c.ip_client)]
    ELSE IF feat.steam THEN [by |-> "Steam", val |-> Backend_my_id(c.steam_client)]
    ELSE [by |-> "None", val |-> 0]

Client_host_id(c) ==
    IF ip_bound(c) THEN [by |-> "Ip", val |-> Backend_host_id(c.ip_client)]
    ELSE IF feat.steam THEN [by |-> "Steam", val |-> Backend_host_id(c.steam_client)]
    ELSE [by |-> "None", val |-> 0]

Client_is_host(c) ==
    IF ip_bound(c) THEN [by |-> "Ip", val |-> Backend_is_host(c.ip_client)]
    ELSE IF feat.steam THEN [by |-> "Steam", val |-> Backend_is_host(c.steam_client)]
    ELSE [by |-> "None", val |-> FALSE]

Client_peer_len(c) ==
    IF ip_bound(c) THEN [by |-> "Ip", val |-> Backend_peer_len(c.ip_client)]
    ELSE IF feat.steam THEN [by |-> "Steam", val |-> Backend_peer_len(c.steam_client)]
    ELSE [by |-> "None", val |-> 0]

Client_is_connected(c) ==
    IF ip_bound(c) THEN [by |-> "Ip", val |-> Backend_is_connected(c.ip_client)]
    ELSE IF feat.steam THEN [by |-> "Steam", val |-> Backend_is_connected(c.steam_client)]
    ELSE [by |-> "None", val |-> FALSE]

Client_mode(c) ==
    IF ip_bound(c) THEN [by |-> "Ip", val |-> Ip_mode(c.ip_client)]
    ELSE IF feat.steam THEN [by |-> "Steam", val |-> Steam_mode(c.steam_client)]
    ELSE [by |-> "None", val |-> "None"]

Client_get_name(c) ==
    IF ip_bound(c) THEN [by |-> "Ip", val |-> Ip_get_name(c.ip_client)]
    ELSE IF feat.steam THEN [by |-> "Steam", val |-> Steam_get_name(c.steam_client)]
    ELSE [by |-> "None", val |-> "None"]

Client_get_name_of(c, id) ==
    IF ip_bound(c) THEN [by |-> "Ip", val |-> Ip_get_name(c.ip_client)]
    ELSE IF feat.steam THEN [by |-> "Steam", val |-> Steam_get_name(c.steam_client)]
    ELSE [by |-> "None", val |-> "None"]

\* info asks the relay backend whenever the build has one, bound socket or not.
Client_info(c) ==
    IF feat.steam THEN [by |-> "Steam", val |-> Steam_info(c.steam_client)]
    ELSE [by |-> "None", val |-> {}]

\* The Client after its socket (relay) backend has drained: d is the drain.
DrainedIp(c, d) ==
    [c |-> [c EXCEPT !.ip_client = d.b], by |-> "Ip", cb |-> d.cb, panic |-> d.panic]

DrainedSteam(c, d) ==
    [c |-> [c EXCEPT !.steam_client = d.b], by |-> "Steam", cb |-> d.cb, panic |-> d.panic]

Client_recv(c) ==
    IF ip_bound(c) THEN DrainedIp(c, Backend_recv(c.ip_client, "Ip"))
    ELSE IF feat.steam THEN DrainedSteam(c, Backend_recv(c.steam_client, "Steam"))
    ELSE [c |-> c, by |-> "None", cb |-> <<>>, panic |-> FALSE]

Client_recv_raw(c) ==
    IF ip_bound(c) THEN DrainedIp(c, Backend_recv_raw(c.ip_client, "Ip"))
    ELSE IF feat.steam THEN DrainedSteam(c, Backend_recv_raw(c.steam_client, "Steam"))
    ELSE [c |-> c, by |-> "None", cb |-> <<>>, panic |-> FALSE]

Client_update_ip_taken(c, ev, o) ==
    IF ip_bound(c)
    THEN [c |-> [c EXCEPT !.ip_client = NoBackend],
          by |-> "Ip", reported |-> Ok, ret |-> Ok]
    ELSE IF feat.steam
         THEN LET u == Steam_update(c.steam_client, ev, o)
              IN  [c |-> [c EXCEPT !.steam_client = u.b],
                   by |-> "Steam", reported |-> u.ret, ret |-> u.ret]
         ELSE [c |-> c, by |-> "None", reported |-> Ok, ret |-> Ok]

\* With the socket bound, ip.update() is a statement and Ok(()) is returned;
\* otherwise the relay's result is passed on by `?`.
Client_update(c, ev, o) ==
    IF ip_bound(c)
    THEN [c |-> [c EXCEPT !.ip_client = Ip_update(c.ip_client, ev)],
          by |-> "Ip", reported |-> Ok, ret |-> Ok]
    ELSE IF feat.steam
         THEN LET u == Steam_update(c.steam_client, ev, o)
              IN  [c |-> [c EXCEPT !.steam_client = u.b],
                   by |-> "Steam", reported |-> u.ret, ret |-> u.ret]
         ELSE [c |-> c, by |-> "None", reported |-> Ok, ret |-> Ok]

(***************************************************************************)
(* impl ClientTrait for ClientTypeRef: the capability reference a receive  *)
(* callback is handed.  A reference is [kind, b], b the backend borrowed.  *)
(***************************************************************************)
ClientTypeRef_my_id(ref) ==
    IF ref.kind = "None" THEN 0 ELSE Backend_my_id(ref.b)

ClientTypeRef_host_id(ref) ==
    IF ref.kind = "None" THEN 0 ELSE Backend_host_id(ref.b)

ClientTypeRef_is_host(ref) ==
    IF ref.kind = "None" THEN TRUE ELSE Backend_is_host(ref.b)

\* The reference the next drain of c hands to its callbacks, if it hands any.
CallbackRefs(c) ==
    IF ip_bound(c) THEN {[kind |-> "Ip", b |-> c.ip_client]}
    ELSE IF feat.steam THEN {[kind |-> "Steam", b |-> c.steam_client]}
    ELSE {}

(***************************************************************************)
(* The bind operations (host / join a session), owned by the backend       *)
(* drivers: the one transition out of Unbound; there is no rebind.         *)
(***************************************************************************)
Unbound(c) == Client_mode(c).val = "None"

Client_bind_ip(c, b, o) ==
    IF ~Unbound(c) THEN [c |-> c, ret |-> NetError_from_tangled(3)]
    ELSE IF o # 0 THEN [c |-> c, ret |-> NetError_from_tangled(o)]
    ELSE [c |-> [c EXCEPT !.ip_client = b], ret |-> Ok]

Client_host_ip(c, o) == Client_bind_ip(c, IpClient_host, o)

Client_join_ip(c, id, o) == Client_bind_ip(c, IpClient_join(id), o)

Client_bind_steam(c, host, o) ==
    IF ~Unbound(c) THEN [c |-> c, ret |-> NetError_from_steam(3)]
    ELSE IF o # 0 THEN [c |-> c, ret |-> NetError_from_steam(o)]
    ELSE [c |-> [c EXCEPT !.steam_client = [@ EXCEPT !.some = TRUE, !.host_id = host]],
          ret |-> Ok]

Client_host_steam(c, o) == Client_bind_steam(c, c.steam_client.my_id, o)

Client_join_steam(c, o) == Client_bind_steam(c, 1, o)

(***************************************************************************)
(* What the other variables hold while one part of the model runs.         *)
(***************************************************************************)
CodecIdle == [pc |-> "idle", v |-> <<>>, req |-> "Uncompressed", frame |-> <<>>,
              tampered |-> 0, out |-> Value(<<>>)]

NoCall == [op |-> "new", by |-> "None", reported |-> Ok, ret |-> Ok,
           good |-> 0, bad |-> 0, invoked |-> 0, inOrder |-> TRUE, left |-> 0]

Unwound == [ok |-> FALSE, type |-> "panic", tag |-> "", code |-> 0]

NoSession == [sent |-> <<>>, arrived |-> <<>>, got |-> <<>>]

(***************************************************************************)
(* The codec on its own: a value is packed, the frame may be corrupted on  *)
(* its way, and the receiver unpacks what arrives.                         *)
(***************************************************************************)
CodecInit ==
    /\ feat \in Features
    /\ codec \in {[CodecIdle EXCEPT !.pc = "start", !.v = v, !.req = r] :
                     v \in Payloads, r \in Compression}
    /\ client = Client_new
    /\ panicked = FALSE
    /\ last = NoCall
    /\ peers = <<>>
    /\ wire = <<>>
    /\ log = NoSession

Pack ==
    /\ codec.pc = "start"
    /\ codec' = [codec EXCEPT !.pc = "packed", !.frame = pack(codec.v, codec.req)]
    /\ UNCHANGED <<feat, client, panicked, last, peers, wire, log>>

Tamper ==
    /\ codec.pc = "packed"
    /\ codec.tampered < MaxTamper
    /\ \/ \E i \in 1..Len(codec.frame), b \in 0..MaxByte :
             /\ codec.frame[i] # b
             /\ codec' = [codec EXCEPT !.frame[i] = b, !.tampered = @ + 1]
       \/ /\ Len(codec.frame) > 0
          /\ codec' = [codec EXCEPT !.frame = SubSeq(@, 1, Len(@) - 1), !.tampered = @ + 1]
       \/ /\ Len(codec.frame) > 0
          /\ codec' = [codec EXCEPT !.frame = <<>>, !.tampered = @ + 1]
    /\ UNCHANGED <<feat, client, panicked, last, peers, wire, log>>

Unpack ==
    /\ codec.pc = "packed"
    /\ codec' = [codec EXCEPT !.pc = "done", !.out = unpack(codec.frame)]
    /\ panicked' = (unpack(codec.frame).kind = "Panic")
    /\ UNCHANGED <<feat, client, last, peers, wire, log>>

CodecNext == Pack \/ Tamper \/ Unpack

SpecCodec == CodecInit /\ [][CodecNext]_vars

(***************************************************************************)
(* One Client and its embedder: the bind operations, the facade calls,     *)
(* and the frames the bound backend buffers from its known peers.          *)
(***************************************************************************)
SampleSends ==
    {[data |-> <<1>>, rel |-> "Reliable", comp |-> "Compressed"],
     [data |-> <<>>, rel |-> "Unreliable", comp |-> "Uncompressed"]}

\* What a remote peer may put on the wire: packed values, and (with its own
\* send_raw) bytes that no pack produced.
ArrivalFrames == {pack(<<1>>, c) : c \in Compression} \cup {<<9>>}

WellFormed(f) == \E v \in Payloads, c \in Compression : f = pack(v, c)

Packed(f) == CHOOSE v \in Payloads : \E c \in Compression : f = pack(v, c)

\* The envelopes a typed drain of buf owes its callback: one per well-formed
\* frame, in the order buffered.
RECURSIVE Owed(_)
Owed(buf) ==
    IF buf = <<>> THEN <<>>
    ELSE (IF WellFormed(Head(buf).data)
          THEN <<[src |-> Head(buf).src, data |-> Packed(Head(buf).data)]>>
          ELSE <<>>) \o Owed(Tail(buf))

Envelopes(cb) == [i \in 1..Len(cb) |-> [src |-> cb[i].src, data |-> cb[i].data]]

\* The buffer of the backend the client is bound to.
BoundInbox(c) ==
    IF ip_bound(c) THEN c.ip_client.inbox
    ELSE IF feat.steam THEN c.steam_client.inbox
    ELSE <<>>

Call(op, r) == [NoCall EXCEPT !.op = op, !.by = r.by, !.reported = r.reported, !.ret = r.ret]

Init ==
    /\ feat \in Features
    /\ client = Client_new
    /\ panicked = FALSE
    /\ last = NoCall
    /\ codec = CodecIdle
    /\ peers = <<>>
    /\ wire = <<>>
    /\ log = NoSession

HostIp ==
    /\ ~panicked /\ feat.tangled
    /\ \E o \in Outcomes :
          LET r == Client_host_ip(client, o)
          IN  /\ client' = r.c
              /\ last' = Call("host_ip", [by |-> "Ip", reported |-> r.ret, ret |-> r.ret])
    /\ UNCHANGED <<feat, codec, panicked, peers, wire, log>>

JoinIp ==
    /\ ~panicked /\ feat.tangled
    /\ \E o \in Outcomes, id \in PeerIds \ {1} :
          LET r == Client_join_ip(client, id, o)
          IN  /\ client' = r.c
              /\ last' = Call("join_ip", [by |-> "Ip", reported |-> r.ret, ret |-> r.ret])
    /\ UNCHANGED <<feat, codec, panicked, peers, wire, log>>

HostSteam ==
    /\ ~panicked /\ feat.steam
    /\ \E o \in Outcomes :
          LET r == Client_host_steam(client, o)
          IN  /\ client' = r.c
              /\ last' = Call("host_steam", [by |-> "Steam", reported |-> r.ret, ret |-> r.ret])
    /\ UNCHANGED <<feat, codec, panicked, peers, wire, log>>

JoinSteam ==
    /\ ~panicked /\ feat.steam
    /\ \E o \in Outcomes :
          LET r == Client_join_steam(client, o)
          IN  /\ client' = r.c
              /\ last' = Call("join_steam", [by |-> "Steam", reported |-> r.ret, ret |-> r.ret])
    /\ UNCHANGED <<feat, codec, panicked, peers, wire, log>>

IpArrive ==
    /\ ~panicked /\ ip_bound(client)
    /\ Len(client.ip_client.inbox) < MaxInbox
    /\ \E src \in client.ip_client.peers, f \in ArrivalFrames :
          client' = [client EXCEPT !.ip_client.inbox = Append(@, [src |-> src, data |-> f])]
    /\ UNCHANGED <<feat, codec, panicked, last, peers, wire, log>>

SteamArrive ==
    /\ ~panicked /\ feat.steam /\ ~ip_bound(client) /\ client.steam_client.some
    /\ Len(client.steam_client.inbox) < MaxInbox
    /\ \E src \in client.steam_client.peers, f \in ArrivalFrames :
          client' = [client EXCEPT !.steam_client.inbox = Append(@, [src |-> src, data |-> f])]
    /\ UNCHANGED <<feat, codec, panicked, last, peers, wire, log>>

Send ==
    /\ ~panicked
    /\ \E dest \in PeerIds, m \in SampleSends, o \in Outcomes :
          last' = Call("send", Client_send(client, dest, m.data, m.rel, m.comp, o))
    /\ UNCHANGED <<feat, codec, client, panicked, peers, wire, log>>

Broadcast ==
    /\ ~panicked
    /\ \E m \in SampleSends, o \in Outcomes :
          last' = Call("broadcast", Client_broadcast(client, m.data, m.rel, m.comp, o))
    /\ UNCHANGED <<feat, codec, client, panicked, peers, wire, log>>

SendRaw ==
    /\ ~panicked
    /\ \E dest \in PeerIds, bytes \in {<<9>>}, rel \in Reliability, o \in Outcomes :
          last' = Call("send_raw", Client_send_raw(client, dest, bytes, rel, o))
    /\ UNCHANGED <<feat, codec, client, panicked, peers, wire, log>>

BroadcastRaw ==
    /\ ~panicked
    /\ \E bytes \in {<<9>>}, rel \in Reliability, o \in Outcomes :
          last' = Call("broadcast_raw", Client_broadcast_raw(client, bytes, rel, o))
    /\ UNCHANGED <<feat, codec, client, panicked, peers, wire, log>>

\* What a drain did (r), set against what it owed for the nbuf items buffered.
DrainCall(op, r, owed, nbuf) ==
    [NoCall EXCEPT !.op = op, !.by = r.by,
                   !.ret = IF r.panic THEN Unwound ELSE Ok,
                   !.good = Len(owed),
                   !.bad = nbuf - Len(owed),
                   !.invoked = Len(r.cb),
                   !.inOrder = (Envelopes(r.cb) = owed),
                   !.left = Len(BoundInbox(r.c))]

Returned(r, call) ==
    /\ client' = r.c
    /\ panicked' = r.panic
    /\ last' = call

Recv ==
    /\ ~panicked
    /\ Returned(Client_recv(client),
                DrainCall("recv", Client_recv(client), Owed(BoundInbox(client)),
                          Len(BoundInbox(client))))
    /\ UNCHANGED <<feat, codec, peers, wire, log>>

RecvRaw ==
    /\ ~panicked
    /\ Returned(Client_recv_raw(client),
                DrainCall("recv_raw", Client_recv_raw(client), BoundInbox(client),
                          Len(BoundInbox(client))))
    /\ UNCHANGED <<feat, codec, peers, wire, log>>

Update ==
    /\ ~panicked
    /\ \E ev \in Events, o \in Outcomes :
          LET r == Client_update(client, ev, o)
          IN  /\ client' = r.c
              /\ last' = Call("update", r)
    /\ UNCHANGED <<feat, codec, panicked, peers, wire, log>>

Info ==
    /\ ~panicked
    /\ last' = Call("info", [by |-> Client_info(client).by, reported |-> Ok, ret |-> Ok])
    /\ UNCHANGED <<feat, codec, client, panicked, peers, wire, log>>

Next ==
    \/ HostIp \/ JoinIp \/ HostSteam \/ JoinSteam
    \/ IpArrive \/ SteamArrive
    \/ Send \/ Broadcast \/ SendRaw \/ BroadcastRaw
    \/ Recv \/ RecvRaw \/ Update \/ Info

Spec == Init /\ [][Next]_vars

(***************************************************************************)
(* A session of three Clients over the socket backend, as test_ip builds   *)
(* it: peer 1 hosts, peers 2 and 3 have joined, every peer knows the       *)
(* others.  A broadcast puts one frame per known peer on the wire; the     *)
(* transport moves frames into the receivers' buffers, a reliable frame    *)
(* in its turn, an unreliable one whenever, or never.                      *)
(***************************************************************************)
SessionPeers == 1..3

\* What the session's peers broadcast: test_ip's two calls, with payloads
\* that tell them apart, and an unreliable broadcast of a payload of no bytes.
SessionSends ==
    {[data |-> <<0, 1>>, rel |-> "Reliable", comp |-> "Uncompressed"],
     [data |-> <<1, 0>>, rel |-> "Reliable", comp |-> "Compressed"],
     [data |-> <<>>, rel |-> "Unreliable", comp |-> "Compressed"]}

Links == SessionPeers \X SessionPeers

Joined(p) ==
    [ip_client |-> [some |-> TRUE, my_id |-> p, host_id |-> 1,
                    peers |-> SessionPeers \ {p}, inbox |-> <<>>],
     steam_client |-> NoBackend]

SessionInit ==
    /\ feat = [steam |-> FALSE, tangled |-> TRUE, compress |-> TRUE]
    /\ peers = [p \in SessionPeers |-> Joined(p)]
    /\ wire = [l \in Links |-> <<>>]
    /\ log = [sent |-> [p \in SessionPeers |-> <<>>],
              arrived |-> [p \in SessionPeers |-> <<>>],
              got |-> [p \in SessionPeers |-> <<>>]]
    /\ panicked = FALSE
    /\ client = Client_new
    /\ last = NoCall
    /\ codec = CodecIdle

Broadcasts == Len(log.sent[1]) + Len(log.sent[2]) + Len(log.sent[3])

\* The frames r.out, each appended to the link from p to its destination.
Transmit(p, out) ==
    [l \in Links |->
        IF l[1] = p /\ \E m \in out : m.dst = l[2]
        THEN Append(wire[l], LET m == CHOOSE m \in out : m.dst = l[2]
                             IN  [data |-> m.data, rel |-> m.rel])
        ELSE wire[l]]

Broadcasted(p, data, rel, r) ==
    /\ wire' = Transmit(p, r.out)
    /\ log' = IF r.ret.ok
              THEN [log EXCEPT !.sent[p] = Append(@, [data |-> data, rel |-> rel])]
              ELSE log

SessionBroadcast ==
    /\ ~panicked
    /\ Broadcasts < MaxBroadcasts
    /\ \E p \in SessionPeers, m \in SessionSends, o \in Outcomes :
          Broadcasted(p, m.data, m.rel,
                      Client_broadcast(peers[p], m.data, m.rel, m.comp, o))
    /\ UNCHANGED <<feat, codec, client, panicked, last, peers>>

Without(q, i) == SubSeq(q, 1, i - 1) \o SubSeq(q, i + 1, Len(q))

\* Frame i of a link may leave it: an unreliable frame at any time, a
\* reliable frame when no reliable frame is ahead of it.
MayLeave(q, i) ==
    \/ q[i].rel = "Unreliable"
    \/ \A j \in 1..(i - 1) : q[j].rel = "Unreliable"

SessionDeliver ==
    /\ ~panicked
    /\ \E l \in Links : \E i \in 1..Len(wire[l]) :
          /\ MayLeave(wire[l], i)
          /\ wire' = [wire EXCEPT ![l] = Without(@, i)]
          /\ peers' = [peers EXCEPT ![l[2]].ip_client.inbox =
                          Append(@, [src |-> l[1], data |-> wire[l][i].data])]
          /\ log' = [log EXCEPT !.arrived[l[2]] =
                          Append(@, [src |-> l[1], rel |-> wire[l][i].rel])]
    /\ UNCHANGED <<feat, codec, client, panicked, last>>

SessionLose ==
    /\ ~panicked
    /\ \E l \in Links : \E i \in 1..Len(wire[l]) :
          /\ wire[l][i].rel = "Unreliable"
          /\ wire' = [wire EXCEPT ![l] = Without(@, i)]
    /\ UNCHANGED <<feat, codec, client, panicked, last, peers, log>>

Received(q, r) ==
    /\ peers' = [peers EXCEPT ![q] = r.c]
    /\ panicked' = r.panic
    /\ log' = [log EXCEPT !.got[q] = @ \o Envelopes(r.cb)]

SessionRecv ==
    /\ ~panicked
    /\ \E q \in SessionPeers :
          /\ peers[q].ip_client.inbox # <<>>
          /\ Received(q, Client_recv(peers[q]))
    /\ UNCHANGED <<feat, codec, client, last, wire>>

SessionNext == SessionBroadcast \/ SessionDeliver \/ SessionLose \/ SessionRecv

SpecSession == SessionInit /\ [][SessionNext]_vars

(***************************************************************************)
(* Properties of the codec (SpecCodec).                                    *)
(***************************************************************************)

\* C1: for every value and both compression requests, unpacking the frame that
\* pack produced yields the value again; unpack sees the frame's bytes only.
C1_RoundTrip ==
    (codec.pc = "done" /\ codec.tampered = 0) => codec.out = Value(codec.v)

\* A zero-length payload, compressed, has made the round trip.
C1_Witness ==
    /\ codec.pc = "done" /\ codec.tampered = 0
    /\ feat.compress /\ codec.req = "Compressed" /\ codec.v = <<>>
    /\ codec.out = Value(<<>>)

\* The malformed inputs C5 names: an empty buffer, a marker byte outside {0, 1},
\* a compressed stream that does not decompress to its declared size.
Malformed(f) ==
    \/ Len(f) = 0
    \/ /\ feat.compress
       /\ f[Len(f)] \notin {0, 1}
    \/ /\ feat.compress
       /\ f[Len(f)] = 1
       /\ ~decompress_size_prepended(SubSeq(f, 1, Len(f) - 1)).ok

\* C5: unpack of a malformed buffer yields a decode fault: it neither panics
\* nor returns a decoded value.
C5_MalformedIsFault ==
    (codec.pc = "done" /\ Malformed(codec.frame)) => codec.out.kind = "Fault"

(***************************************************************************)
(* Properties of one Client (Spec).                                        *)
(***************************************************************************)
SendOps == {"send", "broadcast", "send_raw", "broadcast_raw"}

FacadeOps == SendOps \cup {"recv", "recv_raw", "update", "info"}

\* C2: a Client that was never bound answers with the neutral defaults: its
\* sends and update succeed, it has no peers, is not connected, is the host,
\* and its own id is the host's id.
C2_UnboundDefaults ==
    Unbound(client) =>
        /\ last.op \in SendOps \cup {"update"} => last.ret = Ok
        /\ Client_peer_len(client).val = 0
        /\ Client_is_connected(client).val = FALSE
        /\ Client_is_host(client).val = TRUE
        /\ Client_my_id(client).val = Client_host_id(client).val

DecodeFaults(ret) == IF ret.type = "DecodeFaults" THEN ret.code ELSE 0

\* C4: a typed drain of a buffer holding one well-formed and one corrupted
\* frame invokes the callback once, reports one decode fault and does not
\* stop before the well-formed frame.
C4_DrainIsolation ==
    (last.op = "recv" /\ last.good = 1 /\ last.bad = 1) =>
        /\ last.invoked = 1
        /\ DecodeFaults(last.ret) = 1
        /\ ~panicked

\* C7: is_host() is true exactly when my_id() = host_id(), for the Client in
\* every state and for the capability reference its callbacks receive.
C7_IsHostIffIds ==
    /\ Client_is_host(client).val
          <=> (Client_my_id(client).val = Client_host_id(client).val)
    /\ \A ref \in CallbackRefs(client) :
          ClientTypeRef_is_host(ref)
             <=> (ClientTypeRef_my_id(ref) = ClientTypeRef_host_id(ref))

BackendTag(by) == IF by = "Ip" THEN "Tangled" ELSE by

\* C8: a failure the bound backend reports from send, broadcast, their raw
\* variants or update is what the Client's call returns, tagged with that
\* backend; it is never turned into success.
C8_FailuresSurface ==
    (last.op \in SendOps \cup {"update"} /\ ~last.reported.ok) =>
        /\ last.ret = last.reported
        /\ last.ret.tag = BackendTag(last.by)

\* The socket backend has refused a broadcast_raw and the Client returned that.
C8_Witness ==
    /\ last.op = "broadcast_raw" /\ last.by = "Ip"
    /\ ~last.reported.ok /\ ~last.ret.ok

\* C9: a drain invokes the callback once for each message buffered at the
\* call, in the order buffered, and when it returns the buffer is empty.
C9_DrainExactlyOnce ==
    last.op \in {"recv", "recv_raw"} =>
        /\ last.invoked = last.good
        /\ last.inOrder
        /\ last.ret.ok => last.left = 0

BoundBackend(c) == IF c.ip_client.some THEN "Ip" ELSE "Steam"

\* C10: in a build with both backends every facade operation is served by the
\* socket backend when ip_client is set and by the relay backend otherwise.
C10_OneBackendServes ==
    (feat.steam /\ feat.tangled) =>
        /\ last.op \in FacadeOps => last.by = BoundBackend(client)
        /\ \A by \in {Client_my_id(client).by, Client_host_id(client).by,
                      Client_is_host(client).by, Client_peer_len(client).by,
                      Client_is_connected(client).by, Client_mode(client).by,
                      Client_get_name(client).by, Client_get_name_of(client, 1).by} :
              by = BoundBackend(client)

(***************************************************************************)
(* Properties of a session (SpecSession).                                  *)
(***************************************************************************)

\* The payload the i-th frame that reached q has shown or will show its
\* callback: the callbacks so far took the first arrivals, the rest is buffered.
ArrivedData(q, i) ==
    IF i <= Len(log.got[q]) THEN log.got[q][i].data
    ELSE unpack(peers[q].ip_client.inbox[i - Len(log.got[q])].data).v

ArrivedFrom(p, q, i) ==
    IF log.arrived[q][i].src = p
    THEN <<[data |-> ArrivedData(q, i), rel |-> log.arrived[q][i].rel]>>
    ELSE <<>>

RECURSIVE AtPeer(_, _, _)
AtPeer(p, q, n) ==
    IF n = 0 THEN <<>> ELSE AtPeer(p, q, n - 1) \o ArrivedFrom(p, q, n)

OnWire(p, q) ==
    [k \in 1..Len(wire[<<p, q>>]) |->
        [data |-> unpack(wire[<<p, q>>][k].data).v, rel |-> wire[<<p, q>>][k].rel]]

\* Everything of p's that q's callback has seen, q's backend buffers, or the
\* transport still carries to q.
Stream(p, q) == AtPeer(p, q, Len(log.arrived[q])) \o OnWire(p, q)

IsReliable(m) == m.rel = "Reliable"

IsUnreliable(m) == m.rel = "Unreliable"

Accounted(q) ==
    /\ Len(log.got[q]) + Len(peers[q].ip_client.inbox) = Len(log.arrived[q])
    /\ \A i \in 1..Len(log.got[q]) : log.got[q][i].src = log.arrived[q][i].src

\* A stream carries each reliable message sent exactly once and in order, and
\* each unreliable message sent at most once.
ExactlyOnceReliable(stream, sent) ==
    /\ SelectSeq(stream, IsReliable) = SelectSeq(sent, IsReliable)
    /\ Len(SelectSeq(stream, IsUnreliable)) <= Len(SelectSeq(sent, IsUnreliable))
    /\ \A i \in 1..Len(stream) : \E j \in 1..Len(sent) : stream[i] = sent[j]

=============================================================================
